---- MODULE Spec2Model ----
(***************************************************************************)
(* A model of the glossary bot of src/GlossaryBotApp.ts: the command       *)
(* dispatcher executePostMessageSent, the glossary store it drives         *)
(* (addValueToKey, removeKey, removeValueForKey, getEntryForKey,           *)
(* saveValuesForKey) and the pure text functions they use.                 *)
(*                                                                         *)
(* Text is a sequence of one-character strings, so that trim, toLowerCase, *)
(* indexOf, substring and startsWith are computed as the code computes     *)
(* them.  Every inbound message is one task; a task is suspended at each   *)
(* await of the code (bot-identity lookup, persistence read, delete,       *)
(* create, outbound send) and tasks interleave at those points only.       *)
(***************************************************************************)
EXTENDS Integers, Sequences, FiniteSets, TLC

(***************************************************************************)
(* Bounds of the model.                                                    *)
(***************************************************************************)
\* Messages delivered to the bot in one behaviour.
MaxMsgs == 2
\* Collaborator calls that raise in one behaviour.
MaxFaults == 1
\* Ticks of the wall clock read by new Date().
MaxTime == 1

\* One task per inbound message; two task slots, so two run concurrently.
Tasks == {1, 2}

(***************************************************************************)
(* Characters and the JavaScript string functions the code uses.           *)
(***************************************************************************)
UpperLetters == <<"A", "B", "D", "G", "X", "Y">>
LowerLetters == <<"a", "b", "d", "g", "x", "y">>

\* The characters /\s/ and String.prototype.trim treat as whitespace.
WhiteSpace == {" ", "\n", "\t"}

\* toLowerCase on one character.
LowerChar(c) ==
    IF \E i \in 1..Len(UpperLetters) : UpperLetters[i] = c
    THEN LowerLetters[CHOOSE i \in 1..Len(UpperLetters) : UpperLetters[i] = c]
    ELSE c

\* String.prototype.toLowerCase
ToLowerCase(s) == [i \in 1..Len(s) |-> LowerChar(s[i])]

RECURSIVE TrimStart(_)
\* String.prototype.trimStart
TrimStart(s) ==
    IF s # <<>> /\ Head(s) \in WhiteSpace THEN TrimStart(Tail(s)) ELSE s

RECURSIVE TrimEnd(_)
\* String.prototype.trimEnd
TrimEnd(s) ==
    IF s # <<>> /\ s[Len(s)] \in WhiteSpace
    THEN TrimEnd(SubSeq(s, 1, Len(s) - 1))
    ELSE s

\* String.prototype.trim
Trim(s) == TrimEnd(TrimStart(s))

\* String.prototype.indexOf for a one-character needle: 0-based, -1 when absent.
IndexOf(s, c) ==
    IF \E i \in 1..Len(s) : s[i] = c
    THEN (CHOOSE i \in 1..Len(s) : s[i] = c /\ \A j \in 1..(i - 1) : s[j] # c) - 1
    ELSE -1

\* String.prototype.substring(from, to) with 0-based, end-exclusive indices.
Substring(s, from, to) == SubSeq(s, from + 1, to)

\* String.prototype.substring(from)
SubstringFrom(s, from) == SubSeq(s, from + 1, Len(s))

\* String.prototype.startsWith
StartsWith(s, p) == Len(s) >= Len(p) /\ SubSeq(s, 1, Len(p)) = p

\* String.prototype.endsWith
EndsWith(s, p) == Len(s) >= Len(p) /\ SubSeq(s, Len(s) - Len(p) + 1, Len(s)) = p

\* String.prototype.charAt: the empty string past the end.
CharAt(s, i) == IF i + 1 <= Len(s) THEN <<s[i + 1]>> ELSE <<>>

RECURSIVE SplitLines(_)
\* String.prototype.split('\n')
SplitLines(s) ==
    LET i == IndexOf(s, "\n")
    IN  IF i = -1 THEN <<s>>
        ELSE <<Substring(s, 0, i)>> \o SplitLines(SubstringFrom(s, i + 1))

\* Array.prototype.map(line => line.trim())
MapTrim(lines) == [i \in 1..Len(lines) |-> Trim(lines[i])]

(***************************************************************************)
(* Constants of the program.                                               *)
(***************************************************************************)
COMMAND_PREFIX == <<"!">>
ROOM_TYPE_DIRECT == "d"

\* GlossaryBotApp.COMMANDS: the text of each command word.
COMMANDS(c) ==
    CASE c = "add" -> <<"a", "d", "d">>
      [] c = "multi-add" -> <<"m", "u", "l", "t", "i", "-", "a", "d", "d">>
      [] c = "remove" -> <<"r", "e", "m", "o", "v", "e">>
      [] c = "details" -> <<"d", "e", "t", "a", "i", "l", "s">>
      [] c = "help" -> <<"h", "e", "l", "p">>

(***************************************************************************)
(* Key Normalizer.                                                         *)
(***************************************************************************)
\* normalizeKey that trims and keeps the letter case.
normalizeKeyCased(key) == Trim(key)

normalizeKey(key) == ToLowerCase(Trim(key))

isValidKey(key) == Len(normalizeKey(key)) > 0

normalizeValue(value) == ToLowerCase(Trim(value))

isValidValue(value) == Len(normalizeValue(value)) > 0

\* The association record of a key: model MISC, id = the normalized key.
getAssociationForKey(key) == normalizeKey(key)

\* The author recorded with a value: first verified e-mail, else the first
\* e-mail, else username, else name, else 'unknown' ("" is JavaScript's
\* falsy empty string).
getUserEmail(user) ==
    LET verified == SelectSeq(user.emails, LAMBDA e : e.verified)
        address  == IF verified # <<>> THEN Head(verified).address
                    ELSE IF user.emails # <<>> THEN Head(user.emails).address
                    ELSE ""
    IN  IF address # "" THEN address
        ELSE IF user.username # "" THEN user.username
        ELSE IF user.name # "" THEN user.name
        ELSE "unknown"

(***************************************************************************)
(* Command Parser.                                                         *)
(***************************************************************************)
\* The null result of parseKeyValue.
NoPair == [isNull |-> TRUE, key |-> <<>>, value |-> <<>>]

\* parseKeyValue splitting at the last ':' of the text.
parseKeyValueLastColon(text) ==
    LET colons     == {i \in 1..Len(text) : text[i] = ":"}
        colonIndex == IF colons = {} THEN -1
                      ELSE (CHOOSE i \in colons : \A j \in colons : j <= i) - 1
        key   == Trim(Substring(text, 0, colonIndex))
        value == Trim(SubstringFrom(text, colonIndex + 1))
    IN  IF text = <<>> THEN NoPair
        ELSE IF colonIndex <= 0 THEN NoPair
        ELSE IF ~isValidKey(key) \/ ~isValidValue(value) THEN NoPair
        ELSE [isNull |-> FALSE, key |-> key, value |-> value]

parseKeyValue(text) ==
    LET colonIndex == IndexOf(text, ":")
        key   == Trim(Substring(text, 0, colonIndex))
        value == Trim(SubstringFrom(text, colonIndex + 1))
    IN  IF text = <<>> THEN NoPair
        ELSE IF colonIndex <= 0 THEN NoPair
        ELSE IF ~isValidKey(key) \/ ~isValidValue(value) THEN NoPair
        ELSE [isNull |-> FALSE, key |-> key, value |-> value]

extractCommandPayload(text, command) ==
    LET trimmed == Trim(text)
        prefix  == COMMAND_PREFIX \o COMMANDS(command)
    IN  IF ~StartsWith(ToLowerCase(trimmed), prefix) THEN <<>>
        ELSE Trim(SubstringFrom(trimmed, Len(prefix)))

\* line.endsWith(';') ? line.slice(0, -1).trim() : line
CleanLine(line) ==
    IF EndsWith(line, <<";">>) THEN Trim(SubSeq(line, 1, Len(line) - 1)) ELSE line

RECURSIVE ParsePairs(_)
\* The loop of parseMultiAdd over the non-blank lines.
ParsePairs(lines) ==
    IF lines = <<>> THEN <<>>
    ELSE LET pair == parseKeyValue(CleanLine(Head(lines)))
         IN  (IF pair.isNull THEN <<>> ELSE <<pair>>) \o ParsePairs(Tail(lines))

parseMultiAdd(text) ==
    ParsePairs(SelectSeq(MapTrim(SplitLines(text)), LAMBDA line : Len(line) > 0))

isCommand(text) == StartsWith(Trim(text), COMMAND_PREFIX)

\* matchesCommand without the check of the character after the command word.
matchesCommandPrefixOnly(text, command) ==
    LET trimmed == Trim(text)
        prefix  == COMMAND_PREFIX \o COMMANDS(command)
    IN  isCommand(text) /\ StartsWith(trimmed, prefix)

matchesCommand(text, command) ==
    LET trimmed  == Trim(text)
        prefix   == COMMAND_PREFIX \o COMMANDS(command)
        nextChar == CharAt(trimmed, Len(prefix))
    IN  /\ isCommand(text)
        /\ StartsWith(trimmed, prefix)
        /\ (nextChar = <<>> \/ nextChar[1] \in WhiteSpace)

\* "null" stands for the null CommandType.
getCommandType(text) ==
    IF matchesCommand(text, "add") THEN "add"
    ELSE IF matchesCommand(text, "multi-add") THEN "multi-add"
    ELSE IF matchesCommand(text, "remove") THEN "remove"
    ELSE IF matchesCommand(text, "details") THEN "details"
    ELSE IF matchesCommand(text, "help") THEN "help"
    ELSE "null"

(***************************************************************************)
(* Glossary Store: the pure parts of the store operations.                 *)
(***************************************************************************)
\* The null result of getEntryForKey.
NoEntry == [isNull |-> TRUE, values |-> <<>>]

\* Placeholder where no GlossaryValue is meant.
NoValue == [value |-> <<>>, createdAt |-> 0, createdBy |-> ""]

\* IPersistenceRead.readByAssociation: the data objects stored under the
\* association, in the order they were created.
readByAssociation(store, association) ==
    LET hits == SelectSeq(store, LAMBDA r : r.assoc = association)
    IN  [i \in 1..Len(hits) |-> hits[i].data]

\* removeByAssociation that removes nothing.
removeByAssociationNone(store, association) == store

\* removeByAssociation that removes the records of every association.
removeByAssociationAll(store, association) == <<>>

\* IPersistence.removeByAssociation: every record under the association goes.
removeByAssociation(store, association) ==
    SelectSeq(store, LAMBDA r : r.assoc # association)

\* IPersistence.createWithAssociation: one more record.
createWithAssociation(store, data, association) ==
    Append(store, [assoc |-> association, data |-> data])

\* getEntryForKey after readByAssociation has returned `records`: the values
\* of the first record, null for no record or an empty value list.
getEntryForKey(records) ==
    IF Len(records) = 0 THEN NoEntry
    ELSE LET entry == Head(records)
         IN  IF Len(entry.values) = 0 THEN NoEntry
             ELSE [isNull |-> FALSE, values |-> entry.values]

\* getEntryForKeyCaught that answers with the records also when the read raised.
getEntryForKeyUncaught(records, raised) == getEntryForKey(records)

\* getEntryForKey's catch: a read that raises is logged and answered null.
getEntryForKeyCaught(records, raised) ==
    IF raised THEN NoEntry ELSE getEntryForKey(records)

\* getValuesForKey that answers with no values.
getValuesForKeyNone(entry) == <<>>

\* getValuesForKey that answers with the values in reverse order.
getValuesForKeyReversed(entry) ==
    [i \in 1..Len(entry.values) |-> entry.values[Len(entry.values) + 1 - i].value]

\* getValuesForKey: entry.map(item => item.value).filter(Boolean)
getValuesForKey(entry) ==
    LET mapped == [i \in 1..Len(entry.values) |-> entry.values[i].value]
    IN  SelectSeq(mapped, LAMBDA v : v # <<>>)

\* hasDuplicate that compares the stored text itself, without normalizing.
hasDuplicateExact(existingValues, value) ==
    \E i \in 1..Len(existingValues) : existingValues[i].value = Trim(value)

\* addValueToKey: existingValues.some(item => normalizeValue(item.value) === normalizedValueKey)
hasDuplicate(existingValues, value) ==
    \E i \in 1..Len(existingValues) :
        normalizeValue(existingValues[i].value) = normalizeValue(Trim(value))

\* newValuesFor that persists the new value alone.
newValuesForOnlyNew(existingValues, value, createdAt, user) ==
    <<[value |-> Trim(value), createdAt |-> createdAt, createdBy |-> getUserEmail(user)]>>

\* newValuesFor that persists the normalized form of the new value.
newValuesForNormalized(existingValues, value, createdAt, user) ==
    Append(existingValues,
           [value |-> normalizeValue(value), createdAt |-> createdAt,
            createdBy |-> getUserEmail(user)])

\* addValueToKey: [...existingValues, {value: value.trim(), createdAt, createdBy}]
newValuesFor(existingValues, value, createdAt, user) ==
    Append(existingValues,
           [value |-> Trim(value), createdAt |-> createdAt, createdBy |-> getUserEmail(user)])

\* removeValueForKey: the values whose normalized form differs from the target's.
filterValues(entry, value) ==
    SelectSeq(entry, LAMBDA item :
        item.value = <<>> \/ normalizeValue(item.value) # normalizeValue(value))

(***************************************************************************)
(* Replies: the template of GlossaryBotApp.MESSAGES (or of a handler) and   *)
(* the arguments interpolated into it.                                     *)
(***************************************************************************)
Reply(tpl, key, value) ==
    [tpl |-> tpl, key |-> key, value |-> value, items |-> <<>>,
     info |-> NoValue, counts |-> <<0, 0, 0>>, lines |-> <<>>, count |-> 0]

NoReply == Reply("none", <<>>, <<>>)

\* formatValuesForDisplay: the key and the one value, or the key, the count
\* values.length and the lines `${index + 1}. ${value}`.
ValuesReply(key, values) ==
    IF Len(values) = 1
    THEN [Reply("VALUE_SINGLE", key, values[1]) EXCEPT !.items = values]
    ELSE [Reply("VALUES_LIST", key, <<>>)
             EXCEPT !.items = values,
                    !.count = Len(values),
                    !.lines = [index \in 1..Len(values) |->
                                  [number |-> index, value |-> values[index]]]]

\* handleDetailsCommand's detailsText: key, stored value, date and author.
DetailsReply(key, valueInfo) ==
    [Reply("DETAILS", key, valueInfo.value) EXCEPT !.info = valueInfo]

\* handleMultiAddCommand's responseParts.
SummaryReply(added, duplicates, errors) ==
    [Reply("MULTI_ADD_SUMMARY", <<>>, <<>>) EXCEPT !.counts = <<added, duplicates, errors>>]

(***************************************************************************)
(* The inbound messages of the model: users, rooms and texts.              *)
(***************************************************************************)
\* The app user read.getUserReader().getAppUser() resolves to.
BotUser == [id |-> "bot", emails |-> <<>>, username |-> "glossary.bot", name |-> ""]

\* A user with an unverified and a verified e-mail address.
UserOne ==
    [id |-> "u1",
     emails |-> <<[address |-> "one@old.example", verified |-> FALSE],
                  [address |-> "one@corp.example", verified |-> TRUE]>>,
     username |-> "one", name |-> "User One"]

\* A user without e-mail addresses.
UserTwo == [id |-> "u2", emails |-> <<>>, username |-> "two", name |-> "User Two"]

Cmd(c) == COMMAND_PREFIX \o COMMANDS(c)

AddAX == Cmd("add") \o <<" ", "a", ":", "x">>
\* A case and whitespace variant of "!add a:x".
AddAXVariant == <<" ", " ">> \o Cmd("add") \o <<" ", " ", "A", " ", ":", " ", "X", " ">>
AddAY == Cmd("add") \o <<" ", "a", ":", "y">>
\* Malformed: no colon.
AddA == Cmd("add") \o <<" ", "a">>
\* Malformed: the colon is the first character of the payload.
AddColonFirst == Cmd("add") \o <<" ", ":", "x">>
\* Malformed: nothing but blanks after the colon.
AddNoValue == Cmd("add") \o <<" ", "a", ":", " ">>

\* "!multi-add\na:x;\nA: X;\ng": a pair, a variant of it and a malformed line.
MultiAddAXTwice ==
    Cmd("multi-add") \o <<"\n", "a", ":", "x", ";", "\n", "A", ":", " ", "X", ";", "\n", "g">>
\* "!multi-add\na:y\nb:x;": two keys.
MultiAddAYBX == Cmd("multi-add") \o <<"\n", "a", ":", "y", "\n", "b", ":", "x", ";">>
\* "!multi-add\na:x;\na:y": two values of one key.
MultiAddAXAY == Cmd("multi-add") \o <<"\n", "a", ":", "x", ";", "\n", "a", ":", "y">>
\* No pair at all.
MultiAddNone == Cmd("multi-add")

RemoveAX == Cmd("remove") \o <<" ", "A", ":", "x">>
RemoveA == Cmd("remove") \o <<" ", " ", "A">>
RemoveNone == Cmd("remove")

DetailsAX == Cmd("details") \o <<" ", "A", ":", "X">>
DetailsA == Cmd("details") \o <<" ", "a">>
\* "!details a: x:y": a value that holds a colon.
DetailsAXY == Cmd("details") \o <<" ", "a", ":", " ", "x", ":", "y">>

Help == Cmd("help")

\* Searches: "A", " a " and "!addx", which is no command.
SearchTexts == { <<"A">>, <<" ", "a", " ">>, Cmd("add") \o <<"x">> }

\* A text that trims to nothing.
EmptyText == <<" ", "\n">>

Message(roomType, sender, text) ==
    [room |-> [type |-> roomType], sender |-> sender, text |-> text]

\* The texts of the first user in a direct room.
UserOneTexts ==
    { AddAX, AddAY, AddA, AddColonFirst, AddNoValue,
      MultiAddAXTwice, MultiAddAYBX, MultiAddAXAY, MultiAddNone,
      RemoveAX, RemoveA, RemoveNone, DetailsAX, DetailsA, DetailsAXY, Help, EmptyText }
        \cup SearchTexts

\* The messages delivered: the first user's, an addition by the second
\* user, and an addition and a search in a channel and from the bot itself.
Messages ==
    { Message("d", UserOne, x) : x \in UserOneTexts }
        \cup { Message("d", UserTwo, AddAXVariant) }
        \cup { Message("c", UserOne, x) : x \in {AddAX, <<"A">>} }
        \cup { Message("d", BotUser, x) : x \in {AddAX, <<"A">>} }

NoMessage == Message("", BotUser, <<>>)

(***************************************************************************)
(* State.                                                                  *)
(***************************************************************************)
VARIABLES
    db,       \* the persistence collection: records [assoc, data] in creation order
    pc,       \* per task: "idle", the await it is suspended at, "returned" or "rejected"
    msg,      \* per task: the message being processed
    loc,      \* per task: the local variables of the handler
    out,      \* per task: the outbound sends attempted for the message
    now,      \* the wall clock at its last reading
    nmsgs,    \* messages delivered so far
    faults,   \* collaborator calls that raised so far
    hist,     \* per task: history of the current message and store call; its
              \* field `calls` lists the addValueToKey calls that have returned
    ret,      \* per task: snapshot taken when addValueToKey last returned
    addedOK,  \* <<association, normalized value>> added and not removed since
    raced     \* whether two tasks have been busy at the same time

vars == <<db, pc, msg, loc, out, now, nmsgs, faults, hist, ret, addedOK, raced>>

\* The locals of a handler before it has set any.
NoLoc ==
    [commandType |-> "null", pairs |-> <<>>, idx |-> 0, key |-> <<>>, value |-> <<>>,
     newValues |-> <<>>, result |-> "none", added |-> 0, duplicates |-> 0,
     errors |-> 0, reply |-> NoReply]

NoHist ==
    [overlap |-> FALSE, appUser |-> "none", routed |-> <<>>, wrote |-> 0,
     faulted |-> FALSE, before |-> NoEntry, preAdded |-> FALSE, t0 |-> 0,
     calls |-> <<>>]

NoRet ==
    [valid |-> FALSE, key |-> <<>>, value |-> <<>>, result |-> "none",
     before |-> NoEntry, after |-> NoEntry, faulted |-> FALSE, preAdded |-> FALSE,
     stillAdded |-> FALSE, solo |-> FALSE, t0 |-> 0, t1 |-> 0]

\* A stored value.
Stored(value, createdAt, user) ==
    [value |-> value, createdAt |-> createdAt, createdBy |-> getUserEmail(user)]

\* The collections a behaviour starts from, each left by earlier commands:
\* nothing; "!add a:x"; "!add a:x" then "!add a:y" of the second user.
InitialStores ==
    { <<>>,
      <<[assoc |-> <<"a">>, data |-> [values |-> <<Stored(<<"x">>, 0, UserOne)>>]]>>,
      <<[assoc |-> <<"a">>,
         data |-> [values |-> <<Stored(<<"x">>, 0, UserOne), Stored(<<"y">>, 0, UserTwo)>>]]>> }

Init ==
    /\ db \in InitialStores
    /\ pc = [t \in Tasks |-> "idle"]
    /\ msg = [t \in Tasks |-> NoMessage]
    /\ loc = [t \in Tasks |-> NoLoc]
    /\ out = [t \in Tasks |-> <<>>]
    /\ now = 0
    /\ nmsgs = 0
    /\ faults = 0
    /\ hist = [t \in Tasks |-> NoHist]
    /\ ret = [t \in Tasks |-> NoRet]
    /\ addedOK = {}
    /\ raced = FALSE

\* Whether a collaborator call of this step raises: it may, while the
\* behaviour has faults left.
Raises == IF faults < MaxFaults THEN {FALSE, TRUE} ELSE {FALSE}

\* A task between the delivery of its message and the handler's return.
Busy(t) == pc[t] \notin {"idle", "returned", "rejected"}

\* The tasks whose promise has settled and that the host has not collected.
Settled == {t \in Tasks : pc[t] \in {"returned", "rejected"}}

\* Task t is at `label` and may resume: the host collects a settled task
\* before any task resumes.
At(t, label) == pc[t] = label /\ Settled = {}

\* What a lookup of `key` would find in `store`.
Lookup(store, key) == getEntryForKey(readByAssociation(store, getAssociationForKey(key)))

\* The pair <<association, normalized value>> of a key and a value.
Slot(key, value) == <<getAssociationForKey(key), normalizeValue(value)>>

(***************************************************************************)
(* Command Dispatcher: each handler up to its first await.  The result is  *)
(* the await the task is suspended at and its locals.                      *)
(***************************************************************************)
RECURSIVE addValueToKey(_), addValueReturn(_, _)
\* addValueToKey up to the read of the existing values.
addValueToKey(l) ==
    IF ~isValidKey(l.key) \/ ~isValidValue(l.value)
    THEN addValueReturn(l, "error")
    ELSE [pc |-> "add_read", loc |-> l]

\* The caller of addValueToKey from its result on: handleAddCommand picks the
\* reply; handleMultiAddCommand tallies and goes on to the next pair or the
\* summary.
addValueReturn(l, result) ==
    IF l.commandType = "add"
    THEN [pc |-> "send",
          loc |-> [l EXCEPT !.result = result,
                            !.reply = IF result = "added"
                                      THEN Reply("VALUE_ADDED", l.key, l.value)
                                      ELSE IF result = "duplicate"
                                      THEN Reply("DUPLICATE_VALUE", l.key, <<>>)
                                      ELSE Reply("SAVE_ERROR", <<>>, <<>>)]]
    ELSE LET l2 == [l EXCEPT !.result = result,
                             !.added = IF result = "added" THEN @ + 1 ELSE @,
                             !.duplicates = IF result = "duplicate" THEN @ + 1 ELSE @,
                             !.errors = IF result \notin {"added", "duplicate"} THEN @ + 1 ELSE @]
         IN  IF l.idx < Len(l.pairs)
             THEN addValueToKey([l2 EXCEPT !.idx = l.idx + 1,
                                           !.key = l.pairs[l.idx + 1].key,
                                           !.value = l.pairs[l.idx + 1].value])
             ELSE [pc |-> "send",
                   loc |-> [l2 EXCEPT !.reply = SummaryReply(l2.added, l2.duplicates, l2.errors)]]

handleAddCommand(message) ==
    LET text == Trim(message.text)
        pair == parseKeyValue(extractCommandPayload(text, "add"))
        l    == [NoLoc EXCEPT !.commandType = "add"]
    IN  IF pair.isNull
        THEN [pc |-> "send", loc |-> [l EXCEPT !.reply = Reply("INVALID_ADD_FORMAT", <<>>, <<>>)]]
        ELSE addValueToKey([l EXCEPT !.key = pair.key, !.value = pair.value])

handleMultiAddCommand(message) ==
    LET text == Trim(message.text)
        pairs == parseMultiAdd(extractCommandPayload(text, "multi-add"))
        l     == [NoLoc EXCEPT !.commandType = "multi-add", !.pairs = pairs]
    IN  IF Len(pairs) = 0
        THEN [pc |-> "send",
              loc |-> [l EXCEPT !.reply = Reply("INVALID_MULTI_ADD_FORMAT", <<>>, <<>>)]]
        ELSE addValueToKey([l EXCEPT !.idx = 1, !.key = pairs[1].key, !.value = pairs[1].value])

\* removeValueForKey and removeKey answer false for an invalid key or value
\* before they read.
handleRemoveCommand(message) ==
    LET text == Trim(message.text)
        commandText == extractCommandPayload(text, "remove")
        pair        == parseKeyValue(commandText)
        key         == Trim(commandText)
        l           == [NoLoc EXCEPT !.commandType = "remove"]
    IN  IF ~pair.isNull
        THEN IF ~isValidKey(pair.key) \/ ~isValidValue(pair.value)
             THEN [pc |-> "send",
                   loc |-> [l EXCEPT !.key = pair.key, !.value = pair.value, !.result = "false",
                                     !.reply = Reply("VALUE_NOT_FOUND", pair.key, pair.value)]]
             ELSE [pc |-> "rv_read", loc |-> [l EXCEPT !.key = pair.key, !.value = pair.value]]
        ELSE IF ~isValidKey(key)
        THEN [pc |-> "send", loc |-> [l EXCEPT !.reply = Reply("INVALID_REMOVE_FORMAT", <<>>, <<>>)]]
        ELSE [pc |-> "rk_read", loc |-> [l EXCEPT !.key = key]]

\* getEntryForKey answers null for an invalid key before it reads.
handleDetailsCommand(message) ==
    LET text == Trim(message.text)
        pair == parseKeyValue(extractCommandPayload(text, "details"))
        l    == [NoLoc EXCEPT !.commandType = "details"]
    IN  IF pair.isNull
        THEN [pc |-> "send", loc |-> [l EXCEPT !.reply = Reply("INVALID_DETAILS_FORMAT", <<>>, <<>>)]]
        ELSE IF ~isValidKey(pair.key)
        THEN [pc |-> "send",
              loc |-> [l EXCEPT !.key = pair.key, !.value = pair.value,
                                !.reply = Reply("KEY_NOT_FOUND", pair.key, <<>>)]]
        ELSE [pc |-> "details_read", loc |-> [l EXCEPT !.key = pair.key, !.value = pair.value]]

handleHelpCommand ==
    [pc |-> "send",
     loc |-> [NoLoc EXCEPT !.commandType = "help", !.reply = Reply("HELP", <<>>, <<>>)]]

\* handleKeySearch that goes on to remove the key it was asked for.
handleKeySearchRemoving(key) ==
    LET l == [NoLoc EXCEPT !.commandType = "search", !.key = key]
    IN  IF ~isValidKey(key)
        THEN [pc |-> "send", loc |-> [l EXCEPT !.reply = Reply("INVALID_SEARCH_KEY", <<>>, <<>>)]]
        ELSE [pc |-> "rk_read", loc |-> l]

handleKeySearch(key) ==
    LET l == [NoLoc EXCEPT !.commandType = "search", !.key = key]
    IN  IF ~isValidKey(key)
        THEN [pc |-> "send", loc |-> [l EXCEPT !.reply = Reply("INVALID_SEARCH_KEY", <<>>, <<>>)]]
        ELSE [pc |-> "search_read", loc |-> l]

executeCommand(commandType, message) ==
    CASE commandType = "add" -> handleAddCommand(message)
      [] commandType = "multi-add" -> handleMultiAddCommand(message)
      [] commandType = "remove" -> handleRemoveCommand(message)
      [] commandType = "details" -> handleDetailsCommand(message)
      [] commandType = "help" -> handleHelpCommand

\* executePostMessageSent after shouldProcessMessage has answered true.
Dispatch(m) ==
    LET text        == Trim(m.text)
        commandType == getCommandType(text)
    IN  IF commandType # "null" THEN executeCommand(commandType, m) ELSE handleKeySearch(text)

\* What getAppUser resolves to: the app user, or undefined.
AppUsers == {[isNull |-> FALSE, user |-> BotUser], [isNull |-> TRUE, user |-> BotUser]}

\* shouldProcessMessage without the comparison of the sender with the app user.
shouldProcessMessageNoSelfCheck(m, appUser) ==
    IF appUser.isNull THEN FALSE
    ELSE IF Trim(m.text) = <<>> THEN FALSE
    ELSE TRUE

\* shouldProcessMessage after getAppUser has resolved to `appUser`.
shouldProcessMessage(m, appUser) ==
    IF appUser.isNull THEN FALSE
    ELSE IF m.sender.id = appUser.user.id THEN FALSE
    ELSE IF Trim(m.text) = <<>> THEN FALSE
    ELSE TRUE

(***************************************************************************)
(* History bookkeeping shared by the actions.                              *)
(***************************************************************************)
\* The history of a task that enters a store operation on l.key / l.value.
EnterStore(h, l, store, added) ==
    [h EXCEPT !.faulted = FALSE,
              !.before = Lookup(store, l.key),
              !.preAdded = Slot(l.key, l.value) \in added,
              !.t0 = now]

\* The history after a step that ends at await `nextPc` with locals l.
HistAt(h, nextPc, l, store, added) ==
    IF nextPc \in {"add_read", "rv_read", "rk_read"} THEN EnterStore(h, l, store, added) ELSE h

\* The slots of `added` that a remove on `key` leaves.
Unslot(added, key) == {sl \in added : sl[1] # getAssociationForKey(key)}

\* Task t's addValueToKey returns `result`, the store being `store` then;
\* h is the task's history and `raised` whether this step's call raised.
AddValueReturns(t, result, store, h, raised) ==
    LET l     == loc[t]
        r     == addValueReturn(l, result)
        added == IF result = "added" THEN addedOK \cup {Slot(l.key, l.value)} ELSE addedOK
    IN  /\ pc' = [pc EXCEPT ![t] = r.pc]
        /\ loc' = [loc EXCEPT ![t] = r.loc]
        /\ addedOK' = added
        /\ hist' = [hist EXCEPT ![t] =
                        HistAt([h EXCEPT !.calls = Append(@, [key |-> l.key, value |-> l.value,
                                                              result |-> result])],
                               r.pc, r.loc, store, added)]
        /\ ret' = [ret EXCEPT ![t] =
                      [valid |-> TRUE, key |-> l.key, value |-> l.value, result |-> result,
                       before |-> h.before, after |-> Lookup(store, l.key),
                       faulted |-> h.faulted \/ raised, preAdded |-> h.preAdded,
                       stillAdded |-> Slot(l.key, l.value) \in addedOK,
                       solo |-> ~h.overlap, t0 |-> h.t0, t1 |-> now]]

\* Task t goes on to await `nextPc` with locals l; nothing returns.
GoesOn(t, nextPc, l, h) ==
    /\ pc' = [pc EXCEPT ![t] = nextPc]
    /\ loc' = [loc EXCEPT ![t] = l]
    /\ hist' = [hist EXCEPT ![t] = h]

Count(raised) == IF raised THEN 1 ELSE 0

(***************************************************************************)
(* Actions: one per await of the code, from the resumption of the task to  *)
(* its next await.                                                         *)
(***************************************************************************)
\* The wall clock at a reading: it has advanced since the last reading, or
\* not (two readings within the clock's resolution).
Clock == {c \in {now, now + 1} : c <= MaxTime}

\* The host delivers a message to a free task slot (the lowest):
\* executePostMessageSent up to getAppUser.  A message of a room that is not
\* direct is dropped at once.
ExecutePostMessageSent(t) ==
    /\ At(t, "idle")
    /\ \A u \in Tasks : pc[u] = "idle" => t <= u
    /\ nmsgs < MaxMsgs
    /\ \E m \in Messages :
          /\ msg' = [msg EXCEPT ![t] = m]
          /\ pc' = [pc EXCEPT ![t] = IF m.room.type # ROOM_TYPE_DIRECT THEN "returned"
                                     ELSE "getAppUser"]
    /\ nmsgs' = nmsgs + 1
    /\ hist' = [u \in Tasks |->
                  IF u = t THEN [NoHist EXCEPT !.overlap = \E v \in Tasks \ {t} : Busy(v)]
                  ELSE IF Busy(u) THEN [hist[u] EXCEPT !.overlap = TRUE]
                  ELSE hist[u]]
    /\ raced' = (raced \/ \E v \in Tasks \ {t} : Busy(v))
    /\ UNCHANGED <<db, loc, out, now, faults, ret, addedOK>>

\* The host is done with a task whose promise has settled: the slot is free.
Release(t) ==
    /\ pc[t] \in {"returned", "rejected"}
    /\ pc' = [pc EXCEPT ![t] = "idle"]
    /\ msg' = [msg EXCEPT ![t] = NoMessage]
    /\ loc' = [loc EXCEPT ![t] = NoLoc]
    /\ out' = [out EXCEPT ![t] = <<>>]
    /\ hist' = [hist EXCEPT ![t] = NoHist]
    /\ ret' = [ret EXCEPT ![t] = NoRet]
    /\ UNCHANGED <<db, now, nmsgs, faults, addedOK, raced>>

\* getAppUser resolves or raises: the rest of shouldProcessMessage, then the
\* classification of the text and the handler up to its first await.  A
\* raise is caught nowhere: the promise of executePostMessageSent rejects.
ShouldProcessMessage(t) ==
    /\ At(t, "getAppUser")
    /\ \E raised \in Raises, appUser \in AppUsers :
          /\ faults' = faults + Count(raised)
          /\ IF raised
             THEN /\ GoesOn(t, "rejected", loc[t], [hist[t] EXCEPT !.appUser = "fault"])
             ELSE LET h == [hist[t] EXCEPT !.appUser = IF appUser.isNull THEN "undefined"
                                                       ELSE "user"]
                  IN  IF shouldProcessMessage(msg[t], appUser)
                      THEN LET d == Dispatch(msg[t])
                           IN  GoesOn(t, d.pc, d.loc,
                                      HistAt([h EXCEPT !.routed = Append(@, d.loc.commandType)],
                                             d.pc, d.loc, db, addedOK))
                      ELSE GoesOn(t, "returned", loc[t], h)
    /\ UNCHANGED <<db, msg, out, now, nmsgs, ret, addedOK, raced>>

\* addValueToKey: the read of the existing values returns (or raises and is
\* answered null by getEntryForKey); duplicate check; the new list; then
\* saveValuesForKey up to removeByAssociation.
AddValueToKey_Read(t) ==
    /\ At(t, "add_read")
    /\ \E raised \in Raises :
          LET l == loc[t]
              h == [hist[t] EXCEPT !.faulted = @ \/ raised]
              entry == getEntryForKeyCaught(
                           readByAssociation(db, getAssociationForKey(l.key)), raised)
              existingValues == entry.values
          IN  /\ faults' = faults + Count(raised)
              /\ IF hasDuplicate(existingValues, l.value)
                 THEN AddValueReturns(t, "duplicate", db, h, raised) /\ now' = now
                 ELSE \E date \in Clock :
                        /\ now' = date
                        /\ IF ~isValidKey(l.key)
                           THEN AddValueReturns(t, "error", db, h, raised)
                           ELSE /\ GoesOn(t, "add_save_remove",
                                          [l EXCEPT !.newValues =
                                              newValuesFor(existingValues, l.value, date,
                                                           msg[t].sender)],
                                          h)
                                /\ UNCHANGED <<ret, addedOK>>
    /\ UNCHANGED <<db, msg, out, nmsgs, raced>>

\* saveValuesForKey called by addValueToKey: removeByAssociation returns or
\* raises (caught by addValueToKey: Error).
AddValueToKey_SaveRemove(t) ==
    /\ At(t, "add_save_remove")
    /\ \E raised \in Raises :
          LET h == [hist[t] EXCEPT !.faulted = @ \/ raised, !.wrote = @ + 1]
          IN  /\ faults' = faults + Count(raised)
              /\ IF raised
                 THEN /\ AddValueReturns(t, "error", db, h, raised)
                      /\ db' = db
                 ELSE /\ db' = removeByAssociation(db, getAssociationForKey(loc[t].key))
                      /\ GoesOn(t, "add_save_create", loc[t], h)
                      /\ UNCHANGED <<ret, addedOK>>
    /\ UNCHANGED <<msg, out, now, nmsgs, raced>>

\* saveValuesForKey called by addValueToKey: createWithAssociation returns
\* (Added) or raises (Error).
AddValueToKey_SaveCreate(t) ==
    /\ At(t, "add_save_create")
    /\ \E raised \in Raises :
          LET h == [hist[t] EXCEPT !.faulted = @ \/ raised, !.wrote = @ + 1]
              store == IF raised THEN db
                       ELSE createWithAssociation(db, [values |-> loc[t].newValues],
                                                  getAssociationForKey(loc[t].key))
          IN  /\ faults' = faults + Count(raised)
              /\ db' = store
              /\ AddValueReturns(t, IF raised THEN "error" ELSE "added", store, h, raised)
    /\ UNCHANGED <<msg, out, now, nmsgs, raced>>

\* removeKeyReturn that reports success whatever removeKey returned.
removeKeyReturnAlwaysTrue(l, removed) ==
    [l EXCEPT !.result = "true", !.reply = Reply("KEY_REMOVED", l.key, <<>>)]

\* The reply of handleRemoveCommand to removeKey's result.
removeKeyReturn(l, removed) ==
    [l EXCEPT !.result = IF removed THEN "true" ELSE "false",
              !.reply = IF removed THEN Reply("KEY_REMOVED", l.key, <<>>)
                        ELSE Reply("KEY_NOT_FOUND", l.key, <<>>)]

\* The reply of handleRemoveCommand to removeValueForKey's result.
removeValueReturn(l, removed) ==
    [l EXCEPT !.result = IF removed THEN "true" ELSE "false",
              !.reply = IF removed THEN Reply("VALUE_REMOVED", l.key, l.value)
                        ELSE Reply("VALUE_NOT_FOUND", l.key, l.value)]

\* removeKey: the read of the entry returns; no entry, false; else on to
\* removeByAssociation.
RemoveKey_Read(t) ==
    /\ At(t, "rk_read")
    /\ \E raised \in Raises :
          LET l == loc[t]
              h == [hist[t] EXCEPT !.faulted = @ \/ raised]
              entry == getEntryForKeyCaught(
                           readByAssociation(db, getAssociationForKey(l.key)), raised)
          IN  /\ faults' = faults + Count(raised)
              /\ IF entry.isNull
                 THEN GoesOn(t, "send", removeKeyReturn(l, FALSE), h)
                 ELSE GoesOn(t, "rk_remove", l, h)
    /\ UNCHANGED <<db, msg, out, now, nmsgs, ret, addedOK, raced>>

\* removeKey: removeByAssociation returns (true) or raises (caught: false).
RemoveKey_Remove(t) ==
    /\ At(t, "rk_remove")
    /\ \E raised \in Raises :
          LET h == [hist[t] EXCEPT !.faulted = @ \/ raised, !.wrote = @ + 1]
          IN  /\ faults' = faults + Count(raised)
              /\ db' = IF raised THEN db
                       ELSE removeByAssociation(db, getAssociationForKey(loc[t].key))
              /\ addedOK' = IF raised THEN addedOK ELSE Unslot(addedOK, loc[t].key)
              /\ GoesOn(t, "send", removeKeyReturn(loc[t], ~raised), h)
    /\ UNCHANGED <<msg, out, now, nmsgs, ret, raced>>

\* removeValueNext that saves the filtered list also when it is empty.
removeValueNextSaveEmpty(entry, key, value) ==
    LET filtered == filterValues(entry.values, value)
    IN  IF entry.isNull \/ Len(entry.values) = 0 THEN "send"
        ELSE IF Len(filtered) = Len(entry.values) THEN "send"
        ELSE "rv_save_remove"

\* removeValueForKey after the read: "send" when it answers false (no entry,
\* nothing filtered out, or saveValuesForKey refusing the key), else the
\* await it goes on to: the delete of the whole entry when no value is
\* left, or saveValuesForKey's delete.
removeValueNext(entry, key, value) ==
    LET filtered == filterValues(entry.values, value)
    IN  IF entry.isNull \/ Len(entry.values) = 0 THEN "send"
        ELSE IF Len(filtered) = Len(entry.values) THEN "send"
        ELSE IF Len(filtered) = 0 THEN "rv_remove"
        ELSE IF ~isValidKey(key) THEN "send"
        ELSE "rv_save_remove"

\* removeValueForKey: the read of the entry returns; the filter; nothing
\* removed, false; else on to the delete of the entry or to saveValuesForKey.
RemoveValueForKey_Read(t) ==
    /\ At(t, "rv_read")
    /\ \E raised \in Raises :
          LET l == loc[t]
              h == [hist[t] EXCEPT !.faulted = @ \/ raised]
              entry == getEntryForKeyCaught(
                           readByAssociation(db, getAssociationForKey(l.key)), raised)
              filtered == filterValues(entry.values, l.value)
              next == removeValueNext(entry, l.key, l.value)
          IN  /\ faults' = faults + Count(raised)
              /\ IF next = "send"
                 THEN GoesOn(t, "send", removeValueReturn(l, FALSE), h)
                 ELSE GoesOn(t, next, [l EXCEPT !.newValues = filtered], h)
    /\ UNCHANGED <<db, msg, out, now, nmsgs, ret, addedOK, raced>>

\* removeValueForKey, last value of the key: removeByAssociation returns
\* (true) or raises (false).
RemoveValueForKey_Remove(t) ==
    /\ At(t, "rv_remove")
    /\ \E raised \in Raises :
          LET h == [hist[t] EXCEPT !.faulted = @ \/ raised, !.wrote = @ + 1]
          IN  /\ faults' = faults + Count(raised)
              /\ db' = IF raised THEN db
                       ELSE removeByAssociation(db, getAssociationForKey(loc[t].key))
              /\ addedOK' = IF raised THEN addedOK ELSE Unslot(addedOK, loc[t].key)
              /\ GoesOn(t, "send", removeValueReturn(loc[t], ~raised), h)
    /\ UNCHANGED <<msg, out, now, nmsgs, ret, raced>>

\* saveValuesForKey called by removeValueForKey: removeByAssociation returns
\* or raises (false).
RemoveValueForKey_SaveRemove(t) ==
    /\ At(t, "rv_save_remove")
    /\ \E raised \in Raises :
          LET h == [hist[t] EXCEPT !.faulted = @ \/ raised, !.wrote = @ + 1]
          IN  /\ faults' = faults + Count(raised)
              /\ db' = IF raised THEN db
                       ELSE removeByAssociation(db, getAssociationForKey(loc[t].key))
              /\ addedOK' = IF raised THEN addedOK ELSE Unslot(addedOK, loc[t].key)
              /\ IF raised
                 THEN GoesOn(t, "send", removeValueReturn(loc[t], FALSE), h)
                 ELSE GoesOn(t, "rv_save_create", loc[t], h)
    /\ UNCHANGED <<msg, out, now, nmsgs, ret, raced>>

\* saveValuesForKey called by removeValueForKey: createWithAssociation of
\* the filtered list returns (true) or raises (false).
RemoveValueForKey_SaveCreate(t) ==
    /\ At(t, "rv_save_create")
    /\ \E raised \in Raises :
          LET h == [hist[t] EXCEPT !.faulted = @ \/ raised, !.wrote = @ + 1]
          IN  /\ faults' = faults + Count(raised)
              /\ db' = IF raised THEN db
                       ELSE createWithAssociation(db, [values |-> loc[t].newValues],
                                                  getAssociationForKey(loc[t].key))
              /\ GoesOn(t, "send", removeValueReturn(loc[t], ~raised), h)
    /\ UNCHANGED <<msg, out, now, nmsgs, ret, addedOK, raced>>

\* entry.find(item => normalizeValue(item.value) === normalizedValue): the
\* positions of the matching values, in order.
findValue(entry, value) ==
    SelectSeq(entry, LAMBDA item : normalizeValue(item.value) = normalizeValue(value))

\* handleDetailsCommand: the read of the entry returns; the reply.
HandleDetailsCommand_Read(t) ==
    /\ At(t, "details_read")
    /\ \E raised \in Raises :
          LET l == loc[t]
              entry == getEntryForKeyCaught(
                           readByAssociation(db, getAssociationForKey(l.key)), raised)
              found == findValue(entry.values, l.value)
              reply == IF entry.isNull THEN Reply("KEY_NOT_FOUND", l.key, <<>>)
                       ELSE IF found = <<>> THEN Reply("VALUE_NOT_FOUND", l.key, l.value)
                       ELSE DetailsReply(l.key, Head(found))
          IN  /\ faults' = faults + Count(raised)
              /\ GoesOn(t, "send", [l EXCEPT !.reply = reply],
                        [hist[t] EXCEPT !.faulted = @ \/ raised])
    /\ UNCHANGED <<db, msg, out, now, nmsgs, ret, addedOK, raced>>

\* handleKeySearch: getValuesForKey returns; the values or the not-found hint.
HandleKeySearch_Read(t) ==
    /\ At(t, "search_read")
    /\ \E raised \in Raises :
          LET l == loc[t]
              entry == getEntryForKeyCaught(
                           readByAssociation(db, getAssociationForKey(l.key)), raised)
              values == getValuesForKey(entry)
              reply == IF ~entry.isNull /\ Len(values) > 0 THEN ValuesReply(l.key, values)
                       ELSE Reply("KEY_NOT_FOUND_SEARCH", l.key, <<>>)
          IN  /\ faults' = faults + Count(raised)
              /\ GoesOn(t, "send", [l EXCEPT !.reply = reply],
                        [hist[t] EXCEPT !.faulted = @ \/ raised])
    /\ UNCHANGED <<db, msg, out, now, nmsgs, ret, addedOK, raced>>

\* SendMessage that attempts the send a second time when the first raised.
SendMessageRetry(t) ==
    /\ At(t, "send")
    /\ \E raised \in Raises :
          /\ faults' = faults + Count(raised)
          /\ out' = [out EXCEPT ![t] =
                        IF loc[t].reply.tpl = "none" THEN @
                        ELSE IF raised
                        THEN @ \o <<[reply |-> loc[t].reply, ok |-> FALSE],
                                    [reply |-> loc[t].reply, ok |-> TRUE]>>
                        ELSE Append(@, [reply |-> loc[t].reply, ok |-> TRUE])]
    /\ pc' = [pc EXCEPT ![t] = "returned"]
    /\ UNCHANGED <<db, msg, loc, now, nmsgs, hist, ret, addedOK, raced>>

\* sendMessage: one attempt to send the reply, which returns or raises
\* (caught and logged); the handler and executePostMessageSent return.
SendMessage(t) ==
    /\ At(t, "send")
    /\ \E raised \in Raises :
          /\ faults' = faults + Count(raised)
          /\ out' = [out EXCEPT ![t] =
                        IF loc[t].reply.tpl = "none" THEN @
                        ELSE Append(@, [reply |-> loc[t].reply, ok |-> ~raised])]
    /\ pc' = [pc EXCEPT ![t] = "returned"]
    /\ UNCHANGED <<db, msg, loc, now, nmsgs, hist, ret, addedOK, raced>>

Next ==
    \/ \E t \in Tasks : ExecutePostMessageSent(t)
    \/ \E t \in Tasks : ShouldProcessMessage(t)
    \/ \E t \in Tasks : AddValueToKey_Read(t)
    \/ \E t \in Tasks : AddValueToKey_SaveRemove(t)
    \/ \E t \in Tasks : AddValueToKey_SaveCreate(t)
    \/ \E t \in Tasks : RemoveKey_Read(t)
    \/ \E t \in Tasks : RemoveKey_Remove(t)
    \/ \E t \in Tasks : RemoveValueForKey_Read(t)
    \/ \E t \in Tasks : RemoveValueForKey_Remove(t)
    \/ \E t \in Tasks : RemoveValueForKey_SaveRemove(t)
    \/ \E t \in Tasks : RemoveValueForKey_SaveCreate(t)
    \/ \E t \in Tasks : HandleDetailsCommand_Read(t)
    \/ \E t \in Tasks : HandleKeySearch_Read(t)
    \/ \E t \in Tasks : SendMessage(t)
    \/ \E t \in Tasks : Release(t)

Spec == Init /\ [][Next]_vars

(***************************************************************************)
(* Properties.                                                             *)
(***************************************************************************)
\* The normalized forms of the values of a list, in order.
Normalized(values) == [i \in 1..Len(values) |-> normalizeValue(values[i].value)]

\* How many values of a list normalize to nv.
Occurrences(values, nv) == Cardinality({i \in 1..Len(values) : normalizeValue(values[i].value) = nv})

\* C1: a call of addValue that starts after an addValue of the same
\* normalized key and value has returned Added, with no remove on the key in
\* between and no other task running beside it, returns Duplicate, and the
\* key's list then holds exactly one value of that normalized form.
C1_AddIsIdempotent ==
    \A t \in Tasks :
        (ret[t].valid /\ ret[t].preAdded /\ ret[t].stillAdded /\ ret[t].solo)
            => /\ ret[t].result = "duplicate"
               /\ Occurrences(ret[t].after.values, normalizeValue(ret[t].value)) = 1

\* C2: no persisted value list holds two values of the same normalized form.
C2_NoDuplicateValues ==
    \A r \in 1..Len(db) :
        LET values == db[r].data.values
        IN  \A i, j \in 1..Len(values) :
                normalizeValue(values[i].value) = normalizeValue(values[j].value) => i = j

\* C2 witness: an addition was refused as a duplicate of a stored variant
\* and a list of two values is persisted.
C2_Witness ==
    /\ \E t \in Tasks : ret[t].valid /\ ret[t].result = "duplicate"
                        /\ ret[t].value # Head(findValue(ret[t].after.values, ret[t].value)).value
    /\ \E r \in 1..Len(db) : Len(db[r].data.values) >= 2

\* C3: when addValue returns Added (no other task running beside it), the
\* key's list is the list persisted before the call with one value appended:
\* the trimmed value, a timestamp of the call and the resolved author.
C3_AddAppends ==
    \A t \in Tasks :
        (ret[t].valid /\ ret[t].result = "added" /\ ret[t].solo)
            => \E createdAt \in ret[t].t0 .. ret[t].t1 :
                   ret[t].after.values =
                       Append(ret[t].before.values,
                              [value |-> Trim(ret[t].value), createdAt |-> createdAt,
                               createdBy |-> getUserEmail(msg[t].sender)])

\* C4: a call of addValue during which a persistence call raised (the read,
\* the delete or the create) returns Error.
C4_FaultIsError ==
    \A t \in Tasks : (ret[t].valid /\ ret[t].faulted) => ret[t].result = "error"

\* C5: no persisted record has an empty value list; a removeValue that
\* removes the last value of a key deletes every record of the key; and a
\* search never lists zero values: it answers not-found instead.
C5_NeverEmpty ==
    /\ [](\A r \in 1..Len(db) : Len(db[r].data.values) > 0)
    /\ [](\A t \in Tasks :
            (pc[t] = "send" /\ loc[t].commandType = "search")
                => \/ loc[t].reply.tpl = "KEY_NOT_FOUND_SEARCH"
                   \/ Len(loc[t].reply.items) > 0)
    /\ [][\A t \in Tasks :
            (pc[t] = "rv_read" /\ pc'[t] \notin {"rv_read", "send"})
                => (Len(filterValues(Lookup(db, loc[t].key).values, loc[t].value)) = 0
                        <=> pc'[t] = "rv_remove")]_vars
    /\ [][\A t \in Tasks :
            (pc[t] = "rv_remove" /\ loc'[t].result = "true")
                => /\ readByAssociation(db', getAssociationForKey(loc[t].key)) = <<>>
                   /\ Lookup(db', loc[t].key).isNull]_vars

\* C5 witness: removeValue has removed the only value of a key, the key has
\* no record left, and a lookup of it is absent.
C5_Witness ==
    \E t \in Tasks :
        /\ pc[t] = "send" /\ loc[t].reply.tpl = "VALUE_REMOVED"
        /\ Len(hist[t].before.values) = 1
        /\ readByAssociation(db, getAssociationForKey(loc[t].key)) = <<>>
        /\ Lookup(db, loc[t].key).isNull

\* The association's current list holds a value of normalized form nv.
Holds(store, association, nv) ==
    \E i \in 1..Len(getEntryForKey(readByAssociation(store, association)).values) :
        normalizeValue(getEntryForKey(readByAssociation(store, association)).values[i].value) = nv

\* C6: the lost update needs the race.  While no call has raised and no two
\* tasks have run at the same time, every value reported Added and not
\* removed since is in its key's list whenever no write is in progress.
C6_LostUpdateOnlyByRace ==
    (faults = 0 /\ ~raced /\ \A t \in Tasks : pc[t] \notin {"add_save_create", "rv_save_create"})
        => \A sl \in addedOK : Holds(db, sl[1], sl[2])

\* C6 witness: two tasks have run at the same time, no call has raised, two
\* distinct values of one key were both reported Added, no remove came
\* after, both tasks are done, and the key's single record holds only one.
C6_Witness ==
    /\ faults = 0 /\ raced /\ \A t \in Tasks : pc[t] = "idle"
    /\ \E sl1, sl2 \in addedOK :
          /\ sl1[1] = sl2[1] /\ sl1[2] # sl2[2]
          /\ Len(readByAssociation(db, sl1[1])) = 1
          /\ Holds(db, sl1[1], sl1[2]) /\ ~Holds(db, sl2[1], sl2[2])

\* The entry guard lets the message through.
Eligible(m) ==
    m.room.type = ROOM_TYPE_DIRECT /\ m.sender.id # BotUser.id /\ Trim(m.text) # <<>>

\* C7: for a message that is not of a direct room, or is sent by the bot
\* itself, or has an empty trimmed text, no send is attempted, no
\* persistence delete or create is called and no handler is entered.
C7_EntryGuard ==
    \A t \in Tasks :
        (msg[t] # NoMessage /\ ~Eligible(msg[t]))
            => /\ out[t] = <<>>
               /\ hist[t].wrote = 0
               /\ hist[t].routed = <<>>
               /\ pc[t] \in {"getAppUser", "returned", "rejected"}

\* C7 witness: "!add a:x" sent by the bot itself in a direct room was
\* dropped after the app user was looked up.
C7_Witness ==
    \E t \in Tasks :
        /\ pc[t] = "returned" /\ msg[t] = Message("d", BotUser, AddAX)
        /\ hist[t].appUser = "user"

\* C8: a task that is done with a message of a direct room, not sent by the
\* bot, with non-empty trimmed text, has returned normally after entering
\* exactly one handler and attempting exactly one send.
C8_EveryEligibleMessageAnswered ==
    \A t \in Tasks :
        (pc[t] \in {"returned", "rejected"} /\ Eligible(msg[t]))
            => /\ pc[t] = "returned"
               /\ Len(hist[t].routed) = 1
               /\ Len(out[t]) = 1

\* C9: executePostMessageSent never rejects, whichever collaborator call raises.
C9_NeverRejects == \A t \in Tasks : pc[t] # "rejected"

\* Keys as users type them: case and whitespace variants of "a" and of "b".
KeyVariants ==
    { <<"a">>, <<"A">>, <<" ", "a", " ">>, <<"A", " ">>, <<"\t", "a">>,
      <<"b">>, <<" ", "B">> }

\* The text of s between its first and its last character that is no whitespace.
Core(s) ==
    LET inked == {i \in 1..Len(s) : s[i] \notin WhiteSpace}
    IN  IF inked = {} THEN <<>>
        ELSE SubSeq(s, CHOOSE i \in inked : \A j \in inked : i <= j,
                       CHOOSE i \in inked : \A j \in inked : i >= j)

\* Two characters equal up to letter case.
SameLetter(c, d) ==
    c = d \/ \E i \in 1..Len(UpperLetters) : {c, d} = {UpperLetters[i], LowerLetters[i]}

\* Two keys that differ only in letter case or surrounding whitespace.
SameKey(k1, k2) ==
    /\ Len(Core(k1)) = Len(Core(k2))
    /\ \A i \in 1..Len(Core(k1)) : SameLetter(Core(k1)[i], Core(k2)[i])

\* The pairs of key variants that differ only in letter case or surrounding
\* whitespace.
SameKeyPairs == {p \in KeyVariants \X KeyVariants : SameKey(p[1], p[2])}

\* The associations of the two keys of each such pair.
SameKeyAssociations ==
    {<<getAssociationForKey(p[1]), getAssociationForKey(p[2])>> : p \in SameKeyPairs}

\* The awaits at which a handler reads or creates the entry of its key.
KeyedAwaits == {"add_save_create", "search_read", "details_read", "rk_read", "rv_read"}

\* C10: keys that differ only in letter case or surrounding whitespace have
\* the same association and the same lookup result; the record an Add
\* creates is under the association of every variant of its key; and what
\* Search, Details and Remove read for a key is the lookup result of every
\* variant of it.
C10_KeyVariantsShareEntry ==
    /\ [](\A q \in SameKeyAssociations :
            /\ q[1] = q[2]
            /\ getEntryForKey(readByAssociation(db, q[1]))
                   = getEntryForKey(readByAssociation(db, q[2])))
    /\ [][\A t \in Tasks :
            (pc[t] \in KeyedAwaits /\ pc'[t] # pc[t]) =>
              \A k \in {v \in KeyVariants : SameKey(loc[t].key, v)} :
                /\ (pc[t] = "add_save_create" /\ ret'[t].valid /\ ret'[t].result = "added"
                      /\ ret'[t].key = loc[t].key)
                     => \E r \in 1..Len(db') :
                            db'[r] = [assoc |-> getAssociationForKey(k),
                                      data |-> [values |-> loc[t].newValues]]
                /\ (pc[t] = "search_read" /\ pc'[t] = "send" /\ faults' = faults)
                     => loc'[t].reply =
                            IF Lookup(db, k).isNull
                            THEN Reply("KEY_NOT_FOUND_SEARCH", loc[t].key, <<>>)
                            ELSE ValuesReply(loc[t].key, getValuesForKey(Lookup(db, k)))
                /\ (pc[t] = "details_read" /\ pc'[t] = "send" /\ faults' = faults)
                     => (loc'[t].reply.tpl = "KEY_NOT_FOUND" <=> Lookup(db, k).isNull)
                /\ (pc[t] = "rk_read" /\ faults' = faults)
                     => (pc'[t] = "rk_remove" <=> ~Lookup(db, k).isNull)
                /\ (pc[t] = "rv_read" /\ faults' = faults)
                     => (pc'[t] = "send" <=>
                            Len(filterValues(Lookup(db, k).values, loc[t].value))
                                = Len(Lookup(db, k).values))]_vars

\* C10 witness: a search for "A" is about to answer with the values of the
\* entry to which x was added under "a".
C10_Witness ==
    \E t \in Tasks :
        /\ pc[t] = "send" /\ loc[t].commandType = "search" /\ loc[t].key = <<"A">>
        /\ loc[t].reply.tpl \in {"VALUE_SINGLE", "VALUES_LIST"}
        /\ <<"x">> \in {loc[t].reply.items[i] : i \in 1..Len(loc[t].reply.items)}
        /\ <<(<<"a">>), (<<"x">>)>> \in addedOK
        /\ faults = 0

CommandNames == {"add", "multi-add", "remove", "details", "help"}

\* The text is '!' and the command word c, followed by nothing or by a
\* whitespace character.
IsCommandText(text, c) ==
    LET word == <<"!">> \o COMMANDS(c)
    IN  /\ Len(text) >= Len(word)
        /\ SubSeq(text, 1, Len(word)) = word
        /\ (Len(text) = Len(word) \/ text[Len(word) + 1] \in WhiteSpace)

\* C11: a message is routed to the handler of command c only if its trimmed
\* text is '!' and c followed by end-of-string or whitespace; a message whose
\* trimmed text is of that form for no command is routed to Search with the
\* whole trimmed text as the key, and its task calls no persistence delete
\* or create.
C11_CommandBoundary ==
    \A t \in Tasks :
        hist[t].routed # <<>> =>
            LET text == Trim(msg[t].text)
            IN  /\ \A c \in CommandNames :
                       hist[t].routed[1] = c => IsCommandText(text, c)
                /\ (\A c \in CommandNames : ~IsCommandText(text, c))
                       => /\ hist[t].routed = <<"search">>
                          /\ loc[t].commandType = "search"
                          /\ loc[t].key = text
                          /\ hist[t].wrote = 0
                          /\ pc[t] \in {"search_read", "send", "returned"}

\* C11 witness: "!addx" was answered by Search with the not-found reply for
\* the key "!addx".
C11_Witness ==
    \E t \in Tasks :
        /\ pc[t] = "returned" /\ msg[t].text = Cmd("add") \o <<"x">>
        /\ hist[t].routed = <<"search">>
        /\ Len(out[t]) = 1
        /\ out[t][1].reply.tpl = "KEY_NOT_FOUND_SEARCH"
        /\ out[t][1].reply.key = <<"!", "a", "d", "d", "x">>

\* A line of a multi-add payload without its terminating ';'.
LineBody(line) ==
    LET trimmed == Trim(line)
    IN  IF trimmed # <<>> /\ trimmed[Len(trimmed)] = ";"
        THEN SubSeq(trimmed, 1, Len(trimmed) - 1)
        ELSE trimmed

\* The position of the first ':' of a text, 0 when it has none.
FirstColon(body) ==
    LET colons == {i \in 1..Len(body) : body[i] = ":"}
    IN  IF colons = {} THEN 0 ELSE CHOOSE i \in colons : \A j \in colons : i <= j

\* The key and the value a line states: the texts around its first ':'.
LineKey(line) == Trim(SubSeq(LineBody(line), 1, FirstColon(LineBody(line)) - 1))
LineValue(line) ==
    Trim(SubSeq(LineBody(line), FirstColon(LineBody(line)) + 1, Len(LineBody(line))))

\* A well-formed key:value line: a ':' with a non-blank key before it and a
\* non-blank value after it.
WellFormedLine(line) ==
    FirstColon(LineBody(line)) > 0 /\ LineKey(line) # <<>> /\ LineValue(line) # <<>>

\* The well-formed lines of the payload of a multi-add message, in order.
WellFormedLines(text) ==
    LET trimmed == Trim(text)
        payload == SubSeq(trimmed, Len(Cmd("multi-add")) + 1, Len(trimmed))
    IN  SelectSeq(SplitLines(payload), WellFormedLine)

\* How many of the calls returned one of the results.
Tally(calls, results) == Cardinality({i \in 1..Len(calls) : calls[i].result \in results})

\* C12: when a multi-add with at least one well-formed line is done, the
\* calls of addValueToKey were the well-formed lines in line order, one call
\* each; the reported counts are the numbers of calls that returned Added,
\* Duplicate and Error, so they add up to the number of well-formed lines;
\* and (no other task running beside it) after a pair was added, every
\* repetition of it later in the batch is a duplicate.
C12_MultiAddTally ==
    \A t \in Tasks :
        (hist[t].routed = <<"multi-add">> /\ pc[t] \in {"send", "returned"}) =>
            LET lines == WellFormedLines(msg[t].text)
                calls == hist[t].calls
                counts == loc[t].reply.counts
            IN  Len(lines) >= 1 =>
                  /\ Len(calls) = Len(lines)
                  /\ \A i \in 1..Len(lines) :
                         calls[i].key = LineKey(lines[i]) /\ calls[i].value = LineValue(lines[i])
                  /\ loc[t].reply.tpl = "MULTI_ADD_SUMMARY"
                  /\ counts = <<Tally(calls, {"added"}), Tally(calls, {"duplicate"}),
                                Tally(calls, {"error"})>>
                  /\ counts[1] + counts[2] + counts[3] = Len(lines)
                  /\ ~hist[t].overlap =>
                         \A i, j \in 1..Len(calls) :
                             (i < j /\ calls[i].result = "added"
                                /\ Slot(calls[i].key, calls[i].value)
                                      = Slot(calls[j].key, calls[j].value))
                                 => calls[j].result = "duplicate"

\* The results of addValueToKey that are no success.
Failures == {"error", "duplicate"}

\* C13: while a multi-add is between two pairs or done (no other task
\* running beside it), if the call for its latest pair returned Error or
\* Duplicate, every value that a call for an earlier pair of the batch added
\* is in its key's list; and a batch that is done has made one call for each
\* of its pairs, whatever the calls returned.
C13_MultiAddNoRollback ==
    \A t \in Tasks :
        (hist[t].routed = <<"multi-add">> /\ pc[t] \in {"add_read", "send", "returned"}
           /\ ~hist[t].overlap) =>
            LET calls == hist[t].calls
            IN  /\ (calls # <<>> /\ calls[Len(calls)].result \in Failures) =>
                       \A i \in 1..(Len(calls) - 1) :
                           calls[i].result = "added" =>
                               Holds(db, getAssociationForKey(calls[i].key),
                                     normalizeValue(calls[i].value))
                /\ pc[t] \in {"send", "returned"} => Len(calls) = Len(loc[t].pairs)

\* The associations of the keys of the messages.
Associations == {<<"a">>, <<"b">>}

\* No entry is found under the association.
Absent(store, association) == getEntryForKey(readByAssociation(store, association)).isNull

\* Task t has removeKey's answer for its message.
RemoveKeyDone(t) ==
    /\ pc[t] \in {"send", "returned"}
    /\ hist[t].routed = <<"remove">>
    /\ loc[t].reply.tpl \in {"KEY_REMOVED", "KEY_NOT_FOUND"}

\* C14: (no other task running beside the call) removeKey returns true
\* exactly when an entry of the key existed before the call and none exists
\* after it; when none existed it returns false without a delete or create
\* call; right after a true result the key has no entry; and a key without
\* entry gets one only by the create of an Add, or by the create with which
\* a removeValue writes the remaining values back, which (no other task
\* running beside it) was begun while the entry existed.
C14_RemoveKey ==
    /\ [](\A t \in Tasks :
            (RemoveKeyDone(t) /\ ~hist[t].overlap) =>
                LET existed == ~hist[t].before.isNull
                    absent  == Absent(db, getAssociationForKey(loc[t].key))
                IN  /\ loc[t].result = "true" <=> (existed /\ absent)
                    /\ ~existed => (loc[t].result = "false" /\ hist[t].wrote = 0))
    /\ [][\A t \in Tasks :
            (pc[t] = "rk_remove" /\ pc'[t] = "send" /\ loc'[t].result = "true")
                => /\ Absent(db', getAssociationForKey(loc[t].key))
                   /\ \A k \in KeyVariants :
                          SameKey(k, loc[t].key) => Lookup(db', k).isNull]_vars
    /\ [][\A q \in Associations :
            (Absent(db, q) /\ ~Absent(db', q)) =>
                \E t \in Tasks :
                    /\ pc'[t] # pc[t] /\ getAssociationForKey(loc[t].key) = q
                    /\ \/ pc[t] = "add_save_create"
                       \/ /\ pc[t] = "rv_save_create"
                          /\ hist[t].overlap \/ ~hist[t].before.isNull]_vars

\* C14 witness: removeKey has returned true for a key that had an entry and
\* has none now, with no other task beside it.
C14_Witness ==
    \E t \in Tasks :
        /\ RemoveKeyDone(t) /\ ~hist[t].overlap /\ pc[t] = "returned"
        /\ loc[t].result = "true" /\ ~hist[t].before.isNull
        /\ Absent(db, getAssociationForKey(loc[t].key))
        /\ out[t][1].reply.tpl = "KEY_REMOVED"

\* The stored record of a value in a list: the first whose normalized form
\* is that of the value.
Provenance(values, value) == Head(findValue(values, value))

\* C15: (no other task running beside the command, no read raised in it)
\* Details for a key and value that were added and not removed since replies
\* with the stored value, its createdAt and its createdBy; and an add of a
\* value that was added before and not removed returns Duplicate and leaves
\* value, createdAt and createdBy of the stored record as they were.
C15_DetailsRoundTrip ==
    /\ \A t \in Tasks :
           (pc[t] \in {"send", "returned"} /\ hist[t].routed = <<"details">>
              /\ ~hist[t].overlap /\ ~hist[t].faulted
              /\ Slot(loc[t].key, loc[t].value) \in addedOK)
               => /\ loc[t].reply.tpl = "DETAILS"
                  /\ loc[t].reply.info = Provenance(Lookup(db, loc[t].key).values, loc[t].value)
                  /\ loc[t].reply.value = loc[t].reply.info.value
                  /\ loc[t].reply.info.createdBy # ""
    /\ \A t \in Tasks :
           (ret[t].valid /\ ret[t].preAdded /\ ret[t].stillAdded /\ ret[t].solo)
               => /\ ret[t].result = "duplicate"
                  /\ findValue(ret[t].after.values, ret[t].value) # <<>>
                  /\ Provenance(ret[t].after.values, ret[t].value)
                         = Provenance(ret[t].before.values, ret[t].value)

\* C16: when the read of a Search raises, the handler goes on to send the
\* not-found reply for the key and the store is as it was; a Search calls no
\* persistence delete or create; and the one reply attempted for a Search
\* whose read raised is the not-found reply for the trimmed text.
C16_SearchFailsSoft ==
    /\ [][\A t \in Tasks :
            (pc[t] = "search_read" /\ pc'[t] # pc[t] /\ faults' # faults)
                => /\ pc'[t] = "send"
                   /\ loc'[t].reply = Reply("KEY_NOT_FOUND_SEARCH", loc[t].key, <<>>)
                   /\ db' = db]_vars
    /\ [](\A t \in Tasks :
            hist[t].routed = <<"search">> =>
                /\ hist[t].wrote = 0
                /\ (pc[t] = "returned" /\ hist[t].faulted)
                       => /\ Len(out[t]) = 1
                          /\ out[t][1].reply = Reply("KEY_NOT_FOUND_SEARCH", Trim(msg[t].text), <<>>))

\* C16 witness: a Search for a key that has an entry was answered with the
\* not-found reply after its read had raised.
C16_Witness ==
    \E t \in Tasks :
        /\ pc[t] = "returned" /\ hist[t].routed = <<"search">> /\ hist[t].faulted
        /\ out[t][1].reply.tpl = "KEY_NOT_FOUND_SEARCH" /\ out[t][1].ok
        /\ ~Absent(db, getAssociationForKey(loc[t].key))

\* Task t has the answer of a Search for a non-empty key, and no other task
\* has run beside it.
SearchDone(t) ==
    /\ pc[t] \in {"send", "returned"}
    /\ hist[t].routed = <<"search">>
    /\ isValidKey(loc[t].key)
    /\ ~hist[t].overlap

\* The not-found reply of a Search, with the syntax to add a value to the key.
NotFoundSearch(key) == Reply("KEY_NOT_FOUND_SEARCH", key, <<>>)

\* C17 as stated: a Search for a non-empty key without stored entry replies
\* not-found with the syntax for that key, and a Search for a key that has
\* stored values does not reply not-found.
C17_SearchMiss ==
    \A t \in Tasks :
        SearchDone(t) =>
            IF Absent(db, getAssociationForKey(loc[t].key))
            THEN loc[t].reply = NotFoundSearch(Trim(msg[t].text))
            ELSE loc[t].reply.tpl # "KEY_NOT_FOUND_SEARCH"

\* C17 amended: a Search for a non-empty key without stored entry replies
\* not-found with the syntax for that key; a Search for a key that has
\* stored values replies not-found only when its read raised, and otherwise
\* replies with the stored values.
C17_SearchMissUnlessFault ==
    \A t \in Tasks :
        SearchDone(t) =>
            IF Absent(db, getAssociationForKey(loc[t].key)) \/ hist[t].faulted
            THEN loc[t].reply = NotFoundSearch(Trim(msg[t].text))
            ELSE /\ loc[t].reply.tpl \in {"VALUE_SINGLE", "VALUES_LIST"}
                 /\ loc[t].reply.items = getValuesForKey(Lookup(db, loc[t].key))
                 /\ loc[t].reply.items # <<>>

\* C17 witness: a Search for "A", whose read did not raise, was answered
\* with the not-found reply while the key had no entry.
C17_Witness ==
    \E t \in Tasks :
        /\ SearchDone(t) /\ pc[t] = "returned" /\ ~hist[t].faulted
        /\ Absent(db, getAssociationForKey(loc[t].key))
        /\ out[t][1].reply = NotFoundSearch(<<"A">>)

\* C18: no more than one send is attempted for a message; the step in which
\* the send returns or raises ends the task normally (its promise does not
\* reject) and leaves the store as it is, so what the command wrote before
\* stays persisted.
C18_TransportFault ==
    /\ [](\A t \in Tasks : Len(out[t]) <= 1)
    /\ [][\A t \in Tasks :
            (pc[t] = "send" /\ pc'[t] # "send")
                => /\ pc'[t] = "returned"
                   /\ db' = db
                   /\ Len(out'[t]) = 1
                   /\ out'[t][1].reply = loc[t].reply
                   /\ out'[t][1].ok = (faults' = faults)]_vars

\* C18 witness: the send of the reply to an add has raised, the task has
\* returned, and the added value is in its key's list.
C18_Witness ==
    \E t \in Tasks :
        /\ pc[t] = "returned" /\ Len(out[t]) = 1
        /\ ~out[t][1].ok /\ out[t][1].reply.tpl = "VALUE_ADDED"
        /\ Holds(db, getAssociationForKey(loc[t].key), normalizeValue(loc[t].value))

\* The values of a list whose normalized form is not that of the value.
Others(values, value) ==
    SelectSeq(values, LAMBDA item : normalizeValue(item.value) # normalizeValue(value))

\* Task t has removeValue's answer for its message, and no other task has
\* run beside it.
RemoveValueDone(t) ==
    /\ pc[t] \in {"send", "returned"}
    /\ hist[t].routed = <<"remove">>
    /\ loc[t].reply.tpl \in {"VALUE_REMOVED", "VALUE_NOT_FOUND"}
    /\ ~hist[t].overlap

\* C19: (no other task running beside the call) when removeValue returns
\* true, a stored value matched, none matches afterwards and the other
\* values are the key's list, in their order and with their provenance; when
\* it returns false the key's list is as before the call, and a stored value
\* matched only if a persistence call raised.
C19_RemoveValue ==
    \A t \in Tasks :
        RemoveValueDone(t) =>
            LET before == hist[t].before.values
                after  == Lookup(db, loc[t].key).values
            IN  IF loc[t].result = "true"
                THEN /\ findValue(before, loc[t].value) # <<>>
                     /\ findValue(after, loc[t].value) = <<>>
                     /\ after = Others(before, loc[t].value)
                ELSE /\ after = before
                     /\ findValue(before, loc[t].value) # <<>> => hist[t].faulted

\* The payload of a remove message: the trimmed text after the command word.
RemovePayload(text) ==
    Trim(SubSeq(Trim(text), Len(Cmd("remove")) + 1, Len(Trim(text))))

\* The payload states a key:value pair: a ':' with a non-blank key before it
\* and a non-blank value after it.
IsPair(payload) ==
    /\ FirstColon(payload) > 0
    /\ Trim(SubSeq(payload, 1, FirstColon(payload) - 1)) # <<>>
    /\ Trim(SubSeq(payload, FirstColon(payload) + 1, Len(payload))) # <<>>

\* C20: a Remove whose payload is a key:value pair goes through removeValue
\* only, for that key and value, and (no other task running beside it) every
\* stored value of the key other than the matching one is still stored when
\* it is done; a Remove whose payload is no pair and not empty goes through
\* removeKey only, with the trimmed payload as the key; a Remove with an
\* empty payload gets the invalid-format reply without a persistence delete
\* or create.
C20_RemoveDispatch ==
    \A t \in Tasks :
        hist[t].routed = <<"remove">> =>
            LET payload == RemovePayload(msg[t].text)
            IN  /\ IsPair(payload) =>
                     /\ pc[t] \in {"rv_read", "rv_remove", "rv_save_remove", "rv_save_create",
                                   "send", "returned"}
                     /\ loc[t].key = Trim(SubSeq(payload, 1, FirstColon(payload) - 1))
                     /\ loc[t].value = Trim(SubSeq(payload, FirstColon(payload) + 1, Len(payload)))
                     /\ pc[t] \in {"send", "returned"}
                            => loc[t].reply.tpl \in {"VALUE_REMOVED", "VALUE_NOT_FOUND"}
                     /\ RemoveValueDone(t)
                            => Others(Lookup(db, loc[t].key).values, loc[t].value)
                                   = Others(hist[t].before.values, loc[t].value)
                /\ (~IsPair(payload) /\ payload # <<>>) =>
                     /\ pc[t] \in {"rk_read", "rk_remove", "send", "returned"}
                     /\ loc[t].key = payload
                     /\ pc[t] \in {"send", "returned"}
                            => loc[t].reply.tpl \in {"KEY_REMOVED", "KEY_NOT_FOUND"}
                /\ payload = <<>> =>
                     /\ pc[t] \in {"send", "returned"}
                     /\ loc[t].reply.tpl = "INVALID_REMOVE_FORMAT"
                     /\ hist[t].wrote = 0

\* s is l with some of its elements left out, the others in their order.
IsSubsequence(s, l) ==
    \E f \in [1..Len(s) -> 1..Len(l)] :
        /\ \A i \in 1..Len(s) : l[f[i]] = s[i]
        /\ \A i, j \in 1..Len(s) : i < j => f[i] < f[j]

\* The texts of the stored values of a list, in the stored order.
Texts(values) == [i \in 1..Len(values) |-> values[i].value]

\* The reply shows the texts for the key: the singular template for one
\* text, and for several the count and the texts numbered from 1.
Shows(reply, key, texts) ==
    /\ reply.key = key
    /\ reply.items = texts
    /\ IF Len(texts) = 1
       THEN reply.tpl = "VALUE_SINGLE" /\ reply.value = texts[1]
       ELSE /\ reply.tpl = "VALUES_LIST"
            /\ reply.count = Len(texts)
            /\ Len(reply.lines) = Len(texts)
            /\ \A n \in 1..Len(texts) :
                   reply.lines[n].number = n /\ reply.lines[n].value = texts[n]

\* Every command that ran with no other task beside it kept the order of the
\* stored values: an add that returned Added left values of the list it
\* found, in their order, followed by the new value; every other add, and
\* every remove, left values of the list it found, in their order.
OrderKept ==
    /\ \A t \in Tasks :
           (ret[t].valid /\ ret[t].solo) =>
               LET after == ret[t].after.values
               IN  IF ret[t].result = "added"
                   THEN /\ after # <<>>
                        /\ after[Len(after)].value = Trim(ret[t].value)
                        /\ IsSubsequence(SubSeq(after, 1, Len(after) - 1), ret[t].before.values)
                   ELSE IsSubsequence(after, ret[t].before.values)
    /\ \A t \in Tasks :
           (RemoveValueDone(t) \/ (RemoveKeyDone(t) /\ ~hist[t].overlap))
               => IsSubsequence(Lookup(db, loc[t].key).values, hist[t].before.values)

\* C21 as stated: a Search (no other task running beside it) for a key that
\* has stored values replies with exactly these, in the stored order, in
\* the singular template or as a numbered list with the count; and the
\* stored order is the order of additions.
C21_DisplayOrder ==
    /\ \A t \in Tasks :
           (SearchDone(t) /\ ~Absent(db, getAssociationForKey(loc[t].key)))
               => Shows(loc[t].reply, Trim(msg[t].text), Texts(Lookup(db, loc[t].key).values))
    /\ OrderKept

\* C21 amended: the same for every Search whose read did not raise.
C21_DisplayOrderUnlessFault ==
    /\ \A t \in Tasks :
           (SearchDone(t) /\ ~Absent(db, getAssociationForKey(loc[t].key))
              /\ ~hist[t].faulted)
               => Shows(loc[t].reply, Trim(msg[t].text), Texts(Lookup(db, loc[t].key).values))
    /\ OrderKept

\* C21 witness: after an add of y to the key a that held x, a Search for
\* " a " was answered with the list 1. x, 2. y (count 2).
C21_Witness ==
    \E t \in Tasks :
        /\ SearchDone(t) /\ pc[t] = "returned" /\ ~raced
        /\ msg[t].text = <<" ", "a", " ">>
        /\ <<(<<"a">>), (<<"y">>)>> \in addedOK
        /\ out[t][1].reply.tpl = "VALUES_LIST"
        /\ out[t][1].reply.count = 2
        /\ out[t][1].reply.lines = <<[number |-> 1, value |-> <<"x">>],
                                     [number |-> 2, value |-> <<"y">>]>>

\* The payload of a command message: the trimmed text behind the command.
CommandPayload(text, command) ==
    Trim(SubSeq(Trim(text), Len(Cmd(command)) + 1, Len(Trim(text))))

\* The key and the value a text states: the trimmed texts before and after
\* its first ':'.
KeyBefore(text) == Trim(SubSeq(text, 1, FirstColon(text) - 1))
ValueAfter(text) == Trim(SubSeq(text, FirstColon(text) + 1, Len(text)))

\* The text has no ':', or the ':' is its first character, or a side of it
\* trims to empty.
ParseFails(text) ==
    \/ FirstColon(text) = 0
    \/ FirstColon(text) = 1
    \/ KeyBefore(text) = <<>>
    \/ ValueAfter(text) = <<>>

\* parseKeyValue fails on the text exactly in these cases and otherwise
\* answers the texts around the first ':'.
SplitsAtFirstColon(text) ==
    LET pair == parseKeyValue(text)
    IN  /\ pair.isNull <=> ParseFails(text)
        /\ ~ParseFails(text) => pair.key = KeyBefore(text) /\ pair.value = ValueAfter(text)

\* Texts to parse: "", "a", ":", ":x", "a:", " : ", " :x", "a: ", "a:x",
\* " a : x ", "a:x:y", "a::", "::", "a b: c:d ", "A:X".
ParseTexts ==
    { <<>>, <<"a">>, <<":">>, <<":", "x">>, <<"a", ":">>, <<" ", ":", " ">>,
      <<" ", ":", "x">>, <<"a", ":", " ">>, <<"a", ":", "x">>,
      <<" ", "a", " ", ":", " ", "x", " ">>, <<"a", ":", "x", ":", "y">>,
      <<"a", ":", ":">>, <<":", ":">>,
      <<"a", " ", "b", ":", " ", "c", ":", "d", " ">>, <<"A", ":", "X">> }

ParseTextsSplit == \A text \in ParseTexts : SplitsAtFirstColon(text)

\* C22: parseKeyValue splits at the first ':' only, the key being the
\* trimmed text before it and the value the trimmed text after it (which
\* may hold further ':'), and fails exactly when there is no ':', the ':'
\* is the first character or a side trims to empty; an Add or Details whose
\* payload fails to parse is answered with the handler's invalid-format
\* message without a persistence read, delete or create, and every other
\* Add or Details works on the key and value around the first ':'.
C22_ParseKeyValue ==
    /\ ParseTextsSplit
    /\ \A t \in Tasks :
           \A command \in {"add", "details"} :
               hist[t].routed = <<command>> =>
                   LET payload == CommandPayload(msg[t].text, command)
                   IN  /\ SplitsAtFirstColon(payload)
                       /\ IF ParseFails(payload)
                          THEN /\ pc[t] \in {"send", "returned"}
                               /\ loc[t].reply.tpl =
                                      (IF command = "add" THEN "INVALID_ADD_FORMAT"
                                       ELSE "INVALID_DETAILS_FORMAT")
                               /\ hist[t].wrote = 0
                               /\ hist[t].calls = <<>>
                          ELSE /\ loc[t].key = KeyBefore(payload)
                               /\ loc[t].value = ValueAfter(payload)
                               /\ pc[t] \in {"send", "returned"} =>
                                      loc[t].reply.tpl \notin {"INVALID_ADD_FORMAT",
                                                               "INVALID_DETAILS_FORMAT"}

\* C22 witness: "!add :x" has been answered with the invalid-format
\* message of Add, nothing read or written, while the reply to
\* "!details a: x:y", worked out for the key a and the value x:y, is being
\* sent.
C22_Witness ==
    \E t, u \in Tasks :
        /\ pc[t] = "returned"
        /\ msg[t].text = AddColonFirst
        /\ Len(out[t]) = 1
        /\ out[t][1].reply.tpl = "INVALID_ADD_FORMAT"
        /\ hist[t].wrote = 0
        /\ pc[u] = "send"
        /\ msg[u].text = DetailsAXY
        /\ loc[u].key = <<"a">>
        /\ loc[u].value = <<"x", ":", "y">>
        /\ loc[u].reply.tpl \in {"KEY_NOT_FOUND", "VALUE_NOT_FOUND"}

\* C23: a mutation that reports failure (no other task running beside it)
\* leaves the persisted list of its key as it was before the call: an
\* addValue that returned Error, and a removeValue or removeKey that
\* returned false, also when a persistence delete or create raised in the
\* middle of the write.
C23_FailureKeepsStore ==
    /\ \A t \in Tasks :
           (ret[t].valid /\ ret[t].solo /\ ret[t].result = "error")
               => ret[t].after = ret[t].before
    /\ \A t \in Tasks :
           (/\ pc[t] \in {"send", "returned"}
            /\ hist[t].routed = <<"remove">>
            /\ ~hist[t].overlap
            /\ loc[t].reply.tpl \in {"VALUE_NOT_FOUND", "KEY_NOT_FOUND"})
               => Lookup(db, loc[t].key) = hist[t].before

\* The records persisted under an association.
RecordsOf(store, association) == {i \in 1..Len(store) : store[i].assoc = association}

\* C24 as stated: at most one persisted record exists per normalized key in
\* every reachable state, also when several tasks run delete-then-create
\* writes on one key concurrently.
C24_OneRecordPerKey ==
    \A association \in Associations : Cardinality(RecordsOf(db, association)) <= 1

\* C24 amended: as long as no two tasks have run at the same time, at most
\* one persisted record exists per normalized key, whatever calls raised,
\* and the first record read under an association is that record.
C24_OneRecordUnlessRace ==
    ~raced =>
        \A association \in Associations :
            /\ Cardinality(RecordsOf(db, association)) <= 1
            /\ \A i \in RecordsOf(db, association) :
                   Head(readByAssociation(db, association)) = db[i].data

\* C24 witness: two messages were handled one after the other, the second
\* added y to the key a that held x, and a has one record, holding x and y.
C24_Witness ==
    /\ ~raced /\ nmsgs = MaxMsgs /\ \A t \in Tasks : pc[t] \in {"idle", "returned"}
    /\ <<(<<"a">>), (<<"y">>)>> \in addedOK
    /\ Cardinality(RecordsOf(db, <<"a">>)) = 1
    /\ Texts(Lookup(db, <<"a">>).values) = <<(<<"x">>), (<<"y">>)>>

\* An Add of another task than t that found values stored under the key of
\* t's Search when it was called.
AddBeside(t) ==
    \E u \in Tasks \ {t} :
        /\ hist[u].routed = <<"add">>
        /\ pc[u] \in {"add_read", "add_save_remove", "add_save_create", "send", "returned"}
        /\ getAssociationForKey(loc[u].key) = getAssociationForKey(loc[t].key)
        /\ ~hist[u].before.isNull

\* C25: a key that has a stored value and is not the target of a Remove
\* stays visible: a Search for it whose own read does not raise, also one
\* running while another task adds a value to the same key, is answered
\* with values and never with the not-found message.
C25_KeyStaysVisible ==
    \A t \in Tasks :
        (/\ pc[t] \in {"send", "returned"}
         /\ hist[t].routed = <<"search">>
         /\ ~hist[t].faulted
         /\ nmsgs <= 2
         /\ AddBeside(t))
            => loc[t].reply.tpl \in {"VALUE_SINGLE", "VALUES_LIST"}

\* The invalid-format replies of Add, MultiAdd, Remove and Details.
InvalidFormats ==
    {"INVALID_ADD_FORMAT", "INVALID_MULTI_ADD_FORMAT", "INVALID_REMOVE_FORMAT",
     "INVALID_DETAILS_FORMAT"}

\* The task with history h and locals l handles a Search, a Details or a
\* Help, or a command that is answered with an invalid-format reply.
ReadOnly(h, l) ==
    \/ h.routed \in {<<"search">>, <<"details">>, <<"help">>}
    \/ h.routed # <<>> /\ l.reply.tpl \in InvalidFormats

\* C26: Search, Details and Help, and every Add, MultiAdd, Remove or
\* Details answered with an invalid-format reply, call no persistence
\* delete or create, and no step of their tasks changes the persisted
\* records of any key.
C26_ReadOnlyCommands ==
    /\ [](\A t \in Tasks : ReadOnly(hist[t], loc[t]) => hist[t].wrote = 0)
    /\ [][\A t \in Tasks :
            ((pc'[t] # pc[t] \/ loc'[t] # loc[t])
               /\ (ReadOnly(hist[t], loc[t]) \/ ReadOnly(hist'[t], loc'[t])))
                => db' = db]_vars

\* C26 witness: with a key stored, "!details A:X" was answered with the
\* details of a value, "!remove" is being answered with its invalid-format
\* reply, and neither task has called a delete or create.
C26_Witness ==
    \E t, u \in Tasks :
        /\ pc[t] = "returned" /\ msg[t].text = DetailsAX
        /\ Len(out[t]) = 1 /\ out[t][1].reply.tpl = "DETAILS"
        /\ hist[t].wrote = 0
        /\ pc[u] = "send" /\ msg[u].text = RemoveNone
        /\ loc[u].reply.tpl = "INVALID_REMOVE_FORMAT"
        /\ hist[u].wrote = 0
        /\ db # <<>>

\* The awaits of addValue, removeValue and removeKey.
MutationAwaits ==
    {"add_read", "add_save_remove", "add_save_create", "rk_read", "rk_remove",
     "rv_read", "rv_remove", "rv_save_remove", "rv_save_create"}

\* C27: key isolation: every step of an addValue, removeValue or removeKey
\* on a key k, whatever it returns and whatever call raises, leaves the
\* persisted records of every key whose normalized form differs from
\* normalize(k) as they were.
C27_KeyIsolation ==
    [][\A t \in Tasks :
          (pc[t] \in MutationAwaits /\ (pc'[t] # pc[t] \/ loc'[t] # loc[t]))
              => \A q \in Associations :
                     q # normalizeKey(loc[t].key)
                         => readByAssociation(db', q) = readByAssociation(db, q)]_vars

\* C27 witness: with values stored under a and under b, "!remove  A" has
\* removed the key a, and b still has its values.
C27_Witness ==
    \E t \in Tasks :
        /\ pc[t] \in {"send", "returned"}
        /\ msg[t].text = RemoveA
        /\ loc[t].reply.tpl = "KEY_REMOVED"
        /\ ~hist[t].before.isNull
        /\ Absent(db, <<"a">>)
        /\ Texts(Lookup(db, <<"b">>).values) = <<(<<"x">>)>>

\* The text has no blank at either end.
NoBlankEnds(s) == s # <<>> => (s[1] \notin WhiteSpace /\ s[Len(s)] \notin WhiteSpace)

\* A well-formed association: not empty, no blank at either end, no
\* upper-case letter and no ':'.
WellFormedAssociation(association) ==
    /\ association # <<>>
    /\ NoBlankEnds(association)
    /\ \A i \in 1..Len(association) :
           /\ association[i] # ":"
           /\ \A j \in 1..Len(UpperLetters) : association[i] # UpperLetters[j]

\* The value the message of task t states for the pair addValueToKey is
\* working on, as typed but for the blanks around it.
TypedValue(t) ==
    IF hist[t].routed = <<"add">>
    THEN ValueAfter(CommandPayload(msg[t].text, "add"))
    ELSE LineValue(WellFormedLines(msg[t].text)[loc[t].idx])

\* C28: in every reachable state every persisted association is not empty,
\* trimmed, lower-case and without ':', and every stored value is not empty
\* and has no blank at either end; and the value an add persists is the
\* value typed in the message, trimmed, in the letter case it was typed in.
C28_StoredDataWellFormed ==
    /\ [](\A i \in 1..Len(db) :
            /\ WellFormedAssociation(db[i].assoc)
            /\ \A j \in 1..Len(db[i].data.values) :
                   /\ db[i].data.values[j].value # <<>>
                   /\ NoBlankEnds(db[i].data.values[j].value))
    /\ [][\A t \in Tasks :
            (pc[t] = "add_save_create" /\ (pc'[t] # pc[t] \/ loc'[t] # loc[t]) /\ db' # db)
                => LET values == db'[Len(db')].data.values
                   IN  /\ values # <<>>
                       /\ values[Len(values)].value = TypedValue(t)]_vars

\* C28 witness: " !add  A : X " of the second user was answered Added, and
\* the association a holds the value X as the last of its values.
C28_Witness ==
    \E t \in Tasks :
        /\ pc[t] = "returned" /\ msg[t].text = AddAXVariant
        /\ Len(out[t]) = 1 /\ out[t][1].reply.tpl = "VALUE_ADDED"
        /\ ~raced /\ faults = 0
        /\ Cardinality(RecordsOf(db, <<"a">>)) = 1
        /\ LET values == Lookup(db, <<"a">>).values
           IN  values # <<>> /\ values[Len(values)].value = <<"X">>

====
